---- MODULE Spec2Model ----
(***************************************************************************)
(* The mall application of yjinjo/payments: the catalog (Category,         *)
(* Product), the cart (CartProduct), and the orders (Order,                *)
(* OrderedProduct) of src/mall/models.py, with Order.create_from_cart.     *)
(*                                                                         *)
(* Tables are modelled by their rows.  The fields that no code of the      *)
(* module reads (description, photo, created_at, updated_at) are omitted.  *)
(* Four specifications are given.  In the first three every handler runs   *)
(* to completion before the next starts (one request at a time):           *)
(*   Spec          create_from_cart called from any catalog and any cart;  *)
(*   SpecCart      the cart store: its handlers and the cascading deletes; *)
(*   SpecSnapshot  one order, with MaxOps catalog and cart handler calls   *)
(*                 before and after it;                                    *)
(*   SpecConc      create_from_cart query by query, under the database's   *)
(*                 autocommit (the method opens no transaction), two calls *)
(*                 interleaved with MaxOps catalog handler calls.          *)
(***************************************************************************)
EXTENDS Integers, Sequences, FiniteSets, Bags

\* ---------------------------------------------------------------- bounds
Users == {"u1", "u2"}
ProductIds == {1, 2}
Categories == {"c1", "c2"}
Names == {"Widget", "Gadget"}
Prices == {0, 500, 1000}
MaxQuantity == 2
MaxOrders == 2
MaxOps == 2
Requests == {"r1", "r2"}
\* The category of each product: one product per category.
CategoryOf == [p \in ProductIds |-> IF p = 1 THEN "c1" ELSE "c2"]
\* The name each product is first stored under.
NameOf == [p \in ProductIds |-> IF p = 1 THEN "Widget" ELSE "Gadget"]

\* ------------------------------------------------------- program constants
\* Product.Status: ACTIVE, SOLD_OUT, OBSOLETE, INACTIVE
Statuses == {"a", "s", "o", "i"}
\* Order.Status.REQUESTED, the default of Order.status
REQUESTED == "requested"
\* MinValueValidator(1) of CartProduct.quantity
MinQuantity == 1

Quantities == MinQuantity..MaxQuantity

VARIABLES
    categories,   \* Category rows: the set of their names
    products,     \* Product rows: pk -> [category, name, price, status]
    cart,         \* CartProduct rows: a bag of [user, product, quantity]
    orders,       \* Order rows: pk -> [uid, user, total_amount, status]
    ordered,      \* OrderedProduct rows: a bag of [order, product, name, price, quantity]
    err,          \* the exception the last handler raised, or "none"
    req,          \* the create_from_cart calls in progress (SpecConc)
    ops           \* the catalog and cart handler calls served, where counted

vars == <<categories, products, cart, orders, ordered, err, req, ops>>

\* ---------------------------------------------------------------- helpers
RowBag(row) == SetToBag({row})

RECURSIVE SeqToBag(_)
SeqToBag(s) ==
    IF s = <<>> THEN EmptyBag ELSE RowBag(Head(s)) (+) SeqToBag(Tail(s))

RowKey(row) == row.product_id * (MaxQuantity + 2) + row.quantity

\* A queryset evaluated to a list: every row once per copy, in a fixed order.
RECURSIVE BagToList(_)
BagToList(B) ==
    IF BagToSet(B) = {} THEN <<>>
    ELSE LET row == CHOOSE x \in BagToSet(B) :
                        \A y \in BagToSet(B) : RowKey(x) <= RowKey(y)
         IN  <<row>> \o BagToList(B (-) RowBag(row))

RECURSIVE SumSeq(_)
SumSeq(s) == IF s = <<>> THEN 0 ELSE Head(s) + SumSeq(Tail(s))

\* ------------------------------------------------------------------ catalog
\* class Product: category, name, price, status
Product(c, n, p, s) == [category |-> c, name |-> n, price |-> p, status |-> s]

\* ------------------------------------------------------------------- cart
\* class CartProduct: user, product, quantity (a stored row)
CartProduct(u, p, q) == [user |-> u, product_id |-> p, quantity |-> q]

\* Faulty variant: the table carries no unique constraint.
NoConstraint(table, u, p) == TRUE

\* UniqueConstraint(fields=["user", "product"]): may a row for (u, p) be stored
\* beside the rows of table?
UniqueUserProduct(table, u, p) ==
    \A row \in BagToSet(table) : ~(row.user = u /\ row.product_id = p)

\* user.cart_product_set: the rows of one user
CartProductSet(u) ==
    [row \in {x \in BagToSet(cart) : x.user = u} |-> cart[row]]

\* A CartProduct instance in memory, its related product loaded.
Instance(row, product) ==
    [user |-> row.user, product_id |-> row.product_id,
     quantity |-> row.quantity, product |-> product]

\* Faulty variant: the quantity is left out of the amount.
AmountOfOne(cart_product) == cart_product.product.price

\* CartProduct.amount
Amount(cart_product) == cart_product.product.price * cart_product.quantity

\* ------------------------------------------------------------------ orders
\* class Order: uid (uuid4: fresh, here the pk), user, total_amount, status
Order(pk, u, total_amount) ==
    [uid |-> pk, user |-> u, total_amount |-> total_amount, status |-> REQUESTED]

\* Faulty variant: the line stores the amount of the cart product as its price.
OrderedProductAtAmount(order, cart_product) ==
    [order_id   |-> order,
     product_id |-> cart_product.product_id,
     name       |-> cart_product.product.name,
     price      |-> cart_product.product.price * cart_product.quantity,
     quantity   |-> cart_product.quantity]

\* class OrderedProduct, as create_from_cart builds it from one cart product
OrderedProduct(order, cart_product) ==
    [order_id   |-> order,
     product_id |-> cart_product.product_id,
     name       |-> cart_product.product.name,
     price      |-> cart_product.product.price,
     quantity   |-> cart_product.quantity]

\* create_from_cart, line 129: sum(cart_product.amount for ...)
TotalAmount(cart_product_list) ==
    SumSeq([i \in 1..Len(cart_product_list) |-> Amount(cart_product_list[i])])

\* create_from_cart, lines 132-142: the list handed to bulk_create
OrderedProductList(order, cart_product_list) ==
    [i \in 1..Len(cart_product_list) |-> OrderedProduct(order, cart_product_list[i])]

\* The instances of a list of rows, each with the product row it loads.
Loaded(rows, loaded) ==
    [i \in 1..Len(rows) |-> Instance(rows[i], loaded[i])]

\* ------------------------------------------------------------------- Init
IdleRequest ==
    [pc |-> "idle", user |-> "u1", cart_product_list |-> <<>>,
     loaded |-> <<>>, order |-> 0]

\* The carts the unique constraint and the quantity validator allow: at most
\* one row per (user, product), each quantity in Quantities.
CartOf(f) ==
    SetToBag({CartProduct(k[1], k[2], f[k]) : k \in {x \in DOMAIN f : f[x] > 0}})

\* Any catalog and any cart, no order yet: the inputs of create_from_cart.
Init ==
    /\ categories = Categories
    /\ \E pr \in [ProductIds -> Prices], st \in [ProductIds -> Statuses] :
           products = [p \in ProductIds |->
                          Product(CategoryOf[p], NameOf[p], pr[p], st[p])]
    /\ \E f \in [Users \X ProductIds -> 0..MaxQuantity] : cart = CartOf(f)
    /\ orders = <<>>
    /\ ordered = EmptyBag
    /\ err = "none"
    /\ req = [r \in Requests |-> IdleRequest]
    /\ ops = 0

\* One shop: Widget at 1000 and Gadget at 500 (inactive, the default status);
\* u1 holds two Widgets and a Gadget, u2 one Widget.
InitShop ==
    /\ categories = Categories
    /\ products = [p \in ProductIds |->
                      Product(CategoryOf[p], NameOf[p], IF p = 1 THEN 1000 ELSE 500,
                              IF p = 1 THEN "a" ELSE "i")]
    /\ cart = SetToBag({CartProduct("u1", 1, 2), CartProduct("u1", 2, 1),
                        CartProduct("u2", 1, 1)})
    /\ orders = <<>>
    /\ ordered = EmptyBag
    /\ err = "none"
    /\ req = [r \in Requests |-> IdleRequest]
    /\ ops = 0

\* ------------------------------------------------------- cart handlers
\* CartProduct(user, product, quantity).save() of a new row, the form's
\* quantity validated: the unique constraint rejects a second row of a pair.
InsertCartProduct(u, p, q) ==
    /\ p \in DOMAIN products
    /\ IF UniqueUserProduct(cart, u, p)
       THEN /\ cart' = cart (+) RowBag(CartProduct(u, p, q))
            /\ err' = "none"
       ELSE /\ cart' = cart
            /\ err' = "IntegrityError"
    /\ UNCHANGED <<categories, products, orders, ordered, req>>

\* add_to_cart: the row of (u, p) is created with quantity q, or grows by q.
AddToCart(u, p, q) ==
    /\ p \in DOMAIN products
    /\ IF UniqueUserProduct(cart, u, p)
       THEN cart' = cart (+) RowBag(CartProduct(u, p, q))
       ELSE \E row \in BagToSet(cart) :
                /\ row.user = u /\ row.product_id = p
                /\ row.quantity + q <= MaxQuantity
                /\ cart' = (cart (-) RowBag(row))
                               (+) RowBag([row EXCEPT !.quantity = @ + q])
    /\ err' = "none"
    /\ UNCHANGED <<categories, products, orders, ordered, req>>

\* CartProductForm(instance=row).save(): the quantity of a stored row changes.
UpdateCartProduct(row, q) ==
    /\ BagIn(row, cart)
    /\ q # row.quantity
    /\ cart' = (cart (-) RowBag(row)) (+) RowBag([row EXCEPT !.quantity = q])
    /\ err' = "none"
    /\ UNCHANGED <<categories, products, orders, ordered, req>>

\* row.delete()
DeleteCartProduct(row) ==
    /\ BagIn(row, cart)
    /\ cart' = cart (-) RowBag(row)
    /\ err' = "none"
    /\ UNCHANGED <<categories, products, orders, ordered, req>>

\* ----------------------------------------------------- catalog handlers
\* Faulty variant: the edit is carried into the lines of past orders.
EditProductAndLines(p, n, pr, st) ==
    /\ p \in DOMAIN products
    /\ products[p] # Product(products[p].category, n, pr, st)
    /\ products' = [products EXCEPT ![p] = Product(products[p].category, n, pr, st)]
    /\ ordered' = SeqToBag([i \in 1..Len(BagToList(ordered)) |->
                      LET x == BagToList(ordered)[i]
                      IN  IF x.product_id = p
                          THEN [x EXCEPT !.name = n, !.price = pr]
                          ELSE x])
    /\ err' = "none"
    /\ UNCHANGED <<categories, cart, orders, req>>

\* ProductAdmin's change view: a stored product saved with new field values.
EditProduct(p, n, pr, st) ==
    /\ p \in DOMAIN products
    /\ products[p] # Product(products[p].category, n, pr, st)
    /\ products' = [products EXCEPT ![p] = Product(products[p].category, n, pr, st)]
    /\ err' = "none"
    /\ UNCHANGED <<categories, cart, orders, ordered, req>>

\* on_delete=CASCADE of CartProduct.product and OrderedProduct.product: the
\* rows that reference a product of gone are deleted with it.
Cascade(table, gone) ==
    [row \in {x \in BagToSet(table) : x.product_id \notin gone} |-> table[row]]

\* ProductAdmin's delete view
DeleteProduct(p) ==
    /\ p \in DOMAIN products
    /\ products' = [x \in DOMAIN products \ {p} |-> products[x]]
    /\ cart' = Cascade(cart, {p})
    /\ ordered' = Cascade(ordered, {p})
    /\ err' = "none"
    /\ UNCHANGED <<categories, orders, req>>

\* CategoryAdmin's delete view: on_delete=CASCADE of Product.category
DeleteCategory(c) ==
    /\ c \in categories
    /\ LET gone == {p \in DOMAIN products : products[p].category = c}
       IN  /\ products' = [x \in DOMAIN products \ gone |-> products[x]]
           /\ cart' = Cascade(cart, gone)
           /\ ordered' = Cascade(ordered, gone)
    /\ categories' = categories \ {c}
    /\ err' = "none"
    /\ UNCHANGED <<orders, req>>

\* ------------------------------------------------------ create_from_cart
\* list(cart_product_qs), the queryset being the user's cart
CartProductList(u) == BagToList(CartProductSet(u))

\* create_from_cart, lines 127-145, on the rows the queryset yields: every
\* product is loaded, the Order row is created with the total, the lines are
\* written.  A row whose product is gone raises Product.DoesNotExist.
PlaceOrder(u, rows) ==
    LET order == Len(orders) + 1
    IN  IF \E i \in 1..Len(rows) : rows[i].product_id \notin DOMAIN products
        THEN /\ err' = "DoesNotExist"
             /\ UNCHANGED <<orders, ordered>>
        ELSE LET cart_product_list ==
                     Loaded(rows, [i \in 1..Len(rows) |-> products[rows[i].product_id]])
             IN  /\ orders' = Append(orders, Order(order, u, TotalAmount(cart_product_list)))
                 /\ ordered' = ordered (+)
                        SeqToBag(OrderedProductList(order, cart_product_list))
                 /\ err' = "none"

\* Faulty variant: the call empties the cart it ordered from.
CreateFromCartClearingCart(u) ==
    /\ Len(orders) < MaxOrders
    /\ PlaceOrder(u, CartProductList(u))
    /\ cart' = [row \in {x \in BagToSet(cart) : x.user # u} |-> cart[row]]
    /\ UNCHANGED <<categories, products, req>>

\* Faulty variant: the call refuses an empty cart and a product not ACTIVE.
CreateFromCartPurchasable(u) ==
    /\ Len(orders) < MaxOrders
    /\ LET rows == CartProductList(u)
       IN  IF \/ rows = <<>>
              \/ \E i \in 1..Len(rows) :
                     /\ rows[i].product_id \in DOMAIN products
                     /\ products[rows[i].product_id].status # "a"
           THEN /\ err' = "ValueError"
                /\ UNCHANGED <<orders, ordered>>
           ELSE PlaceOrder(u, rows)
    /\ UNCHANGED <<categories, products, cart, req>>

\* Order.create_from_cart(user, user.cart_product_set.all()), start to end
CreateFromCart(u) ==
    /\ Len(orders) < MaxOrders
    /\ PlaceOrder(u, CartProductList(u))
    /\ UNCHANGED <<categories, products, cart, req>>

\* ------------------------------------- create_from_cart, query by query
\* line 127: list(cart_product_qs) reads the user's cart rows
ReadCart(r, u) ==
    /\ req[r].pc = "idle"
    /\ req' = [req EXCEPT ![r] = [pc |-> "sum", user |-> u,
                                  cart_product_list |-> CartProductList(u),
                                  loaded |-> <<>>, order |-> 0]]
    /\ UNCHANGED <<categories, products, cart, orders, ordered, err>>

\* line 129, one term of the sum: cart_product.product loads the product row
\* of the next cart product and keeps it on the instance; a missing row raises
\* Product.DoesNotExist.
FetchProduct(r) ==
    /\ req[r].pc = "sum"
    /\ Len(req[r].loaded) < Len(req[r].cart_product_list)
    /\ LET p == req[r].cart_product_list[Len(req[r].loaded) + 1].product_id
       IN  IF p \in DOMAIN products
           THEN /\ req' = [req EXCEPT ![r].loaded = Append(@, products[p])]
                /\ UNCHANGED err
           ELSE /\ req' = [req EXCEPT ![r].pc = "not_found"]
                /\ err' = "DoesNotExist"
    /\ UNCHANGED <<categories, products, cart, orders, ordered>>

\* line 130: cls.objects.create(user=user, total_amount=total_amount), committed
\* at once (autocommit)
CreateOrder(r) ==
    /\ req[r].pc = "sum"
    /\ Len(req[r].loaded) = Len(req[r].cart_product_list)
    /\ LET order == Len(orders) + 1
           cart_product_list == Loaded(req[r].cart_product_list, req[r].loaded)
       IN  /\ orders' = Append(orders,
                               Order(order, req[r].user, TotalAmount(cart_product_list)))
           /\ req' = [req EXCEPT ![r].pc = "lines", ![r].order = order]
    /\ UNCHANGED <<categories, products, cart, ordered, err>>

\* lines 132-145: the rows are built from the loaded instances and written by
\* one bulk_create; the order is returned
BulkCreate(r) ==
    /\ req[r].pc = "lines"
    /\ ordered' = ordered (+)
           SeqToBag(OrderedProductList(req[r].order,
                        Loaded(req[r].cart_product_list, req[r].loaded)))
    /\ req' = [req EXCEPT ![r].pc = "done"]
    /\ err' = "none"
    /\ UNCHANGED <<categories, products, cart, orders>>

\* line 143 raising (the database refuses or is lost): nothing catches it and
\* nothing undoes line 130
BulkCreateFails(r) ==
    /\ req[r].pc = "lines"
    /\ req' = [req EXCEPT ![r].pc = "bulk_failed"]
    /\ err' = "DatabaseError"
    /\ UNCHANGED <<categories, products, cart, orders, ordered>>

\* ------------------------------------------------------- specifications
\* A handler call that the budget of MaxOps counts.
Counted == ops < MaxOps /\ ops' = ops + 1

\* The contract of one call: create_from_cart from any catalog and cart.
Next ==
    \E u \in Users : CreateFromCart(u) /\ UNCHANGED ops

Spec == Init /\ [][Next]_vars

\* The cart store and what deletes its rows.
NextCart ==
    \/ \E u \in Users, p \in ProductIds, q \in Quantities :
           InsertCartProduct(u, p, q) /\ UNCHANGED ops
    \/ \E u \in Users, p \in ProductIds, q \in Quantities :
           AddToCart(u, p, q) /\ UNCHANGED ops
    \/ \E row \in BagToSet(cart), q \in Quantities :
           UpdateCartProduct(row, q) /\ UNCHANGED ops
    \/ \E row \in BagToSet(cart) : DeleteCartProduct(row) /\ UNCHANGED ops
    \/ \E p \in ProductIds : DeleteProduct(p) /\ UNCHANGED ops
    \/ \E c \in Categories : DeleteCategory(c) /\ UNCHANGED ops

SpecCart == InitShop /\ [][NextCart]_vars

\* One order and the product edits and cart changes before and after it.
NextSnapshot ==
    \/ \E u \in Users : orders = <<>> /\ CreateFromCart(u) /\ UNCHANGED ops
    \/ \E p \in ProductIds, n \in Names, pr \in Prices, st \in Statuses :
           Counted /\ EditProduct(p, n, pr, st)
    \/ \E u \in Users, p \in ProductIds, q \in Quantities :
           Counted /\ InsertCartProduct(u, p, q)
    \/ \E row \in BagToSet(cart), q \in Quantities :
           Counted /\ UpdateCartProduct(row, q)
    \/ \E row \in BagToSet(cart) : Counted /\ DeleteCartProduct(row)
    \/ \E p \in ProductIds : Counted /\ DeleteProduct(p)

SpecSnapshot == InitShop /\ [][NextSnapshot]_vars

\* Two calls of create_from_cart, query by query, beside the catalog handlers.
NextConc ==
    \/ \E r \in Requests, u \in Users : ReadCart(r, u) /\ UNCHANGED ops
    \/ \E r \in Requests : FetchProduct(r) /\ UNCHANGED ops
    \/ \E r \in Requests : CreateOrder(r) /\ UNCHANGED ops
    \/ \E r \in Requests : BulkCreate(r) /\ UNCHANGED ops
    \/ \E r \in Requests : BulkCreateFails(r) /\ UNCHANGED ops
    \/ \E p \in ProductIds, n \in Names, pr \in Prices, st \in Statuses :
           Counted /\ EditProduct(p, n, pr, st)
    \/ \E p \in ProductIds : Counted /\ DeleteProduct(p)

SpecConc == InitShop /\ [][NextConc]_vars

\* ------------------------------------------------------------ properties
RECURSIVE SumOf(_, _)
SumOf(S, f) ==
    IF S = {} THEN 0
    ELSE LET x == CHOOSE y \in S : TRUE IN f[x] + SumOf(S \ {x}, f)

\* The rows of one user's cart, and what they cost at the stored prices.
RowsOf(u) == {x \in BagToSet(cart) : x.user = u}

CartValue(u) ==
    SumOf(RowsOf(u),
          [x \in RowsOf(u) |-> cart[x] * x.quantity * products[x.product_id].price])

\* The OrderedProduct rows of one order, and the sum of their price * quantity.
LinesOf(o) == {x \in BagToSet(ordered) : x.order_id = o}

LineCount(o) == SumOf(LinesOf(o), [x \in LinesOf(o) |-> ordered[x]])

LineSum(o) ==
    SumOf(LinesOf(o), [x \in LinesOf(o) |-> ordered[x] * x.price * x.quantity])

\* This step stored a new Order row; NewOrder is its pk.
Created == Len(orders') = Len(orders) + 1

NewOrder == Len(orders')

\* The line create_from_cart owes to a cart row, at the stored name and price.
LineFor(o, row) ==
    [order_id |-> o, product_id |-> row.product_id,
     name |-> products[row.product_id].name,
     price |-> products[row.product_id].price, quantity |-> row.quantity]

\* C1: the order create_from_cart returns carries as total_amount the sum, over
\* the user's cart rows, of quantity times the price the product has when the
\* call is made; one row of quantity 1 and price 0 gives 0.
C1_TotalIsSumAtCallTime ==
    [][Created =>
          LET u == orders'[NewOrder].user
          IN  /\ orders'[NewOrder].total_amount = CartValue(u)
              /\ (\E x \in RowsOf(u) :
                      /\ RowsOf(u) = {x}
                      /\ x.quantity = 1
                      /\ products[x.product_id].price = 0)
                     => orders'[NewOrder].total_amount = 0]_vars

\* Two orders: one of two lines worth 2000, one of a single line of quantity 1
\* at price 0 worth 0.
C1_Witness ==
    /\ Len(orders) = 2
    /\ \E i, j \in DOMAIN orders :
          /\ LineCount(i) = 2
          /\ orders[i].total_amount = 2000
          /\ LineCount(j) = 1
          /\ \A x \in LinesOf(j) : x.quantity = 1 /\ x.price = 0
          /\ orders[j].total_amount = 0

\* C2: a completed create_from_cart has written as many OrderedProduct rows of
\* the new order as the cart had rows, and for each cart row exactly one: same
\* product, the product's name and price of that moment, the row's quantity.
C2_OneLinePerCartRow ==
    [][Created =>
          LET u == orders'[NewOrder].user
              new == ordered' (-) ordered
          IN  /\ BagCardinality(new) = BagCardinality(CartProductSet(u))
              /\ \A x \in BagToSet(new) : x.order_id = NewOrder
              /\ \A row \in RowsOf(u) :
                    /\ CopiesIn(LineFor(NewOrder, row), new) = 1
                    /\ \A x \in BagToSet(new) :
                          x.product_id = row.product_id => x = LineFor(NewOrder, row)]_vars

\* An order of two lines, each the snapshot of a different product.
C2_Witness ==
    \E o \in DOMAIN orders :
        /\ LineCount(o) = 2
        /\ \E x, y \in LinesOf(o) :
              /\ x.product_id # y.product_id
              /\ x.name = "Widget" /\ y.name = "Gadget"
              /\ x.quantity = 2 /\ y.quantity = 1

\* C3: when create_from_cart fails after it created the Order row and before
\* the OrderedProduct rows are written, no Order of that call is visible.
C3_FailedCallLeavesNoOrder ==
    \A r \in Requests :
        req[r].pc = "bulk_failed" => req[r].order \notin DOMAIN orders

\* C4: two checkout requests of one user that read the same cart rows do not
\* both end with an order.
C4_OneOrderPerCartState ==
    \A r1, r2 \in Requests :
        (/\ r1 # r2
         /\ req[r1].pc = "done" /\ req[r2].pc = "done"
         /\ req[r1].user = req[r2].user
         /\ req[r1].cart_product_list # <<>>
         /\ req[r1].cart_product_list = req[r2].cart_product_list)
        => ~(req[r1].order \in DOMAIN orders /\ req[r2].order \in DOMAIN orders)

\* C5: a later edit of a product (the product staying) or a later cart change
\* leaves every order, and every OrderedProduct row, as it was.
C5_SnapshotFrozen ==
    [][(/\ DOMAIN products' = DOMAIN products
        /\ (products' # products \/ cart' # cart))
       => (orders' = orders /\ ordered' = ordered)]_vars

\* An order whose line still holds a price or a name that its product, still
\* stored, no longer has.
C5_Witness ==
    /\ orders # <<>>
    /\ \E x \in LinesOf(1) :
          /\ x.product_id \in DOMAIN products
          /\ \/ products[x.product_id].price # x.price
             \/ products[x.product_id].name # x.name
    /\ orders[1].total_amount = LineSum(1)

\* C6: no two CartProduct rows share a (user, product) pair, and an insert that
\* the constraint rejects leaves the cart as it was.
NoDuplicatePair ==
    \A u \in Users, p \in ProductIds :
        SumOf({x \in RowsOf(u) : x.product_id = p},
              [x \in {y \in RowsOf(u) : y.product_id = p} |-> cart[x]]) <= 1

C6_UniqueUserProduct ==
    [][/\ NoDuplicatePair
       /\ NoDuplicatePair'
       /\ (err' = "IntegrityError" => cart' = cart)]_vars

\* A second insert for a pair was just rejected, two users holding rows of the
\* same product.
C6_Witness ==
    /\ err = "IntegrityError"
    /\ \E x, y \in BagToSet(cart) : x.user # y.user /\ x.product_id = y.product_id

\* C7: create_from_cart adds one Order row and one OrderedProduct row per cart
\* row, and changes no CartProduct, Product or Category row.
C7_CreateFrame ==
    [][Created =>
          /\ cart' = cart
          /\ products' = products
          /\ categories' = categories
          /\ SubSeq(orders', 1, Len(orders)) = orders
          /\ ordered \sqsubseteq ordered'
          /\ BagCardinality(ordered') =
                 BagCardinality(ordered)
                     + BagCardinality(CartProductSet(orders'[NewOrder].user))]_vars

\* An order was made of a cart whose rows are all still there.
C7_Witness ==
    \E o \in DOMAIN orders :
        /\ LinesOf(o) # {}
        /\ \A x \in LinesOf(o) :
               BagIn(CartProduct(orders[o].user, x.product_id, x.quantity), cart)

\* C8: create_from_cart never ends successfully with an OrderedProduct row
\* whose product is no longer stored.
C8_NoLineOfDeletedProduct ==
    \A r \in Requests :
        req[r].pc = "done" =>
            \A x \in LinesOf(req[r].order) : x.product_id \in DOMAIN products

\* C9: every call succeeds, whatever the cart and the statuses: the order is
\* REQUESTED, an empty cart gives total 0 and no line, and a row whose product
\* is not ACTIVE gets its line like any other.
C9_NoCartOrStatusCheck ==
    [][/\ Created
       /\ err' = "none"
       /\ orders'[NewOrder].status = REQUESTED
       /\ LET u == orders'[NewOrder].user
              new == ordered' (-) ordered
          IN  /\ RowsOf(u) = {} =>
                     (orders'[NewOrder].total_amount = 0 /\ new = EmptyBag)
              /\ \A st \in Statuses :
                    Cardinality({x \in BagToSet(new) :
                                    products[x.product_id].status = st})
                    = Cardinality({x \in RowsOf(u) :
                                    products[x.product_id].status = st})]_vars

\* An order of no line made of an empty cart, and an order with a line of a
\* product that is not ACTIVE.
C9_Witness ==
    \E i, j \in DOMAIN orders :
        /\ RowsOf(orders[i].user) = {}
        /\ LinesOf(i) = {}
        /\ orders[i].total_amount = 0
        /\ orders[i].status = REQUESTED
        /\ \E x \in LinesOf(j) : products[x.product_id].status \in Statuses \ {"a"}

\* C10: the total_amount of an order whose call has completed equals, from
\* then on, the sum of price * quantity over the order's OrderedProduct rows.
C10_TotalIsLineSum ==
    \A r \in Requests :
        req[r].pc = "done" => orders[req[r].order].total_amount = LineSum(req[r].order)

====
